---- MODULE Spec2Model ----
(***************************************************************************)
(* Cartlis: rule validation (cartlis_governance.validate_spec) and the     *)
(* mutation pass (fixer.fix_spec) over an OpenAPI document.                *)
(*                                                                         *)
(* Encoding of Python values                                               *)
(*   dict whose key order is never observed  -> function over its keys     *)
(*   dict that the code iterates (paths, methods of a path, responses)     *)
(*                                           -> sequence of [k, v] entries *)
(*   list                                    -> sequence                   *)
(*   str the code inspects or builds (path, parameter name, description)   *)
(*                                           -> sequence of characters     *)
(*   str the code only compares (rule id, method, header name, status)     *)
(*                                           -> string                     *)
(*   None                                    -> the record None            *)
(*   a raised exception                      -> its class name in err      *)
(***************************************************************************)
EXTENDS Integers, Sequences, FiniteSets, TLC

VARIABLES
    api_spec,     \* the document, mutated in place by fix_spec
    rules,        \* the rule catalog handed to validate_spec
    violations,   \* the violation list (validate_spec's result / fix_spec's argument)
    pc,           \* position of the caller
    idx,          \* position of fix_spec's outer loop in violations (1-based)
    ret,          \* value returned by fix_spec
    err,          \* class of the exception that ended the run, "none" otherwise
    fixed_file,   \* contents last dumped to fixed_api_spec.yaml
    first,        \* outcome of the first validate_spec call
    second,       \* outcome of a repeated validate_spec call
    after,        \* outcome of validate_spec on fix_spec's return value
    spec0,        \* the document as it was handed to the program
    violations0,  \* the list as it was handed to fix_spec
    consumed,     \* indices of violations0 whose handlers have been entered
    generation,   \* what the generation calls of the last iteration did
    arg,          \* the argument of a helper called on its own
    out           \* what that helper returned

vars == <<api_spec, rules, violations, pc, idx, ret, err, fixed_file,
          first, second, after, spec0, violations0, consumed, generation, arg, out>>

----------------------------------------------------------------------------
(* Python values *)

None == [None |-> TRUE]

EmptyDict == [k \in {} |-> None]

\* key in d
Has(d, k) == k \in DOMAIN d

\* d.get(k, default)
GetOr(d, k, default) == IF k \in DOMAIN d THEN d[k] ELSE default

\* d[k] = v
DSet(d, k, v) == [x \in (DOMAIN d) \cup {k} |-> IF x = k THEN v ELSE d[x]]

\* d.update(e)
DUpdate(d, e) ==
    [x \in (DOMAIN d) \cup (DOMAIN e) |-> IF x \in DOMAIN e THEN e[x] ELSE d[x]]

\* a list stored where a dict may be stored as well
ListVal(s) == [list |-> s]

(* insertion-ordered dicts *)

Entry(key, val) == [k |-> key, v |-> val]

OHas(od, key) == \E i \in 1..Len(od) : od[i].k = key

OIndex(od, key) == CHOOSE i \in 1..Len(od) : od[i].k = key

\* od[key]
OGet(od, key) == od[OIndex(od, key)].v

\* od[key] = val : an existing key keeps its position, a new key goes last
OSet(od, key, val) ==
    IF OHas(od, key)
    THEN [od EXCEPT ![OIndex(od, key)] = Entry(key, val)]
    ELSE Append(od, Entry(key, val))

\* od.pop(key), the remaining dict
ORemove(od, key) ==
    LET i == OIndex(od, key)
    IN  SubSeq(od, 1, i - 1) \o SubSeq(od, i + 1, Len(od))

----------------------------------------------------------------------------
(* Strings the code inspects *)

Digits == {"0", "1", "2"}
LowerLetters == {"a", "b", "d", "i", "p", "v"}
UpperLetters == {"A", "B", "D", "I", "P", "V"}
Whitespace == {" "}

\* str.lower() on one character
LowerChar(c) ==
    CASE c = "A" -> "a" [] c = "B" -> "b" [] c = "D" -> "d"
      [] c = "I" -> "i" [] c = "P" -> "p" [] c = "V" -> "v"
      [] OTHER -> c

\* method.upper()
Upper(m) ==
    CASE m = "get" -> "GET" [] m = "post" -> "POST" [] OTHER -> m

\* s.strip()
RECURSIVE LStrip(_)
LStrip(s) ==
    IF s # <<>> /\ Head(s) \in Whitespace THEN LStrip(Tail(s)) ELSE s

RECURSIVE RStrip(_)
RStrip(s) ==
    IF s # <<>> /\ s[Len(s)] \in Whitespace
    THEN RStrip(SubSeq(s, 1, Len(s) - 1)) ELSE s

Strip(s) == RStrip(LStrip(s))

\* re.match("^/v[0-9]+/.*", path)
MatchesVersion(path) ==
    /\ Len(path) >= 4
    /\ path[1] = "/"
    /\ path[2] = "v"
    /\ \E k \in 3..(Len(path) - 1) :
          /\ \A j \in 3..k : path[j] \in Digits
          /\ path[k + 1] = "/"

\* re.match("^([a-z]+_)*[a-z]+$", name)
MatchesSnake(name) ==
    /\ name # <<>>
    /\ \A j \in 1..Len(name) : name[j] \in LowerLetters \cup {"_"}
    /\ name[1] # "_"
    /\ name[Len(name)] # "_"
    /\ \A j \in 1..(Len(name) - 1) : ~(name[j] = "_" /\ name[j + 1] = "_")

----------------------------------------------------------------------------
(* cartlis_governance.validate_spec *)

RateLimitHeaders == {"X-RateLimit-Limit", "X-RateLimit-Remaining", "X-RateLimit-Reset"}

\* the outcome of a call: the value returned, or the exception raised
Returned(vs) == [violations |-> vs, err |-> "none"]
Raised(e) == [violations |-> <<>>, err |-> e]

\* f"..." : the interpolated parts of a violation's description
Description(text, detail, method, path) ==
    [text |-> text, detail |-> detail, method |-> Upper(method), path |-> path]

\* the dict appended for an operation-level rule
OperationViolation(rule, desc, path, method) ==
    [id |-> rule.id, description |-> desc, fix |-> GetOr(rule, "fix", None),
     path |-> path, method |-> method]

\* a VER001 dict built like the operation-level ones, with a "method" key
PathViolationWithMethod(rule, path) ==
    [id |-> rule.id,
     description |-> [text |-> rule.description, detail |-> <<>>, path |-> path],
     fix |-> GetOr(rule, "fix", None),
     path |-> path,
     method |-> "unknown"]

\* the dict appended for VER001: no "method" key
PathViolation(rule, path) ==
    [id |-> rule.id,
     description |-> [text |-> rule.description, detail |-> <<>>, path |-> path],
     fix |-> GetOr(rule, "fix", None),
     path |-> path]

\* the operations walked last path first, last method first
OperationsBackwards(api) ==
    LET paths == GetOr(api, "paths", <<>>)
        RECURSIVE Flat(_)
        Flat(i) ==
            IF i < 1 THEN <<>>
            ELSE [j \in 1..Len(paths[i].v) |->
                    [path |-> paths[i].k,
                     method |-> paths[i].v[Len(paths[i].v) + 1 - j].k,
                     details |-> paths[i].v[Len(paths[i].v) + 1 - j].v]] \o Flat(i - 1)
    IN  Flat(Len(paths))

\* api_spec.get("paths", {}).items() flattened with methods.items()
Operations(api) ==
    LET paths == GetOr(api, "paths", <<>>)
        RECURSIVE Flat(_)
        Flat(i) ==
            IF i > Len(paths) THEN <<>>
            ELSE [j \in 1..Len(paths[i].v) |->
                    [path |-> paths[i].k, method |-> paths[i].v[j].k,
                     details |-> paths[i].v[j].v]] \o Flat(i + 1)
    IN  Flat(1)

\* SEC002, lines 34-46
CheckSEC002(rule, o) ==
    IF ~Has(o.details, "security")
    THEN Returned(<<OperationViolation(rule,
            Description(rule.description, <<>>, o.method, o.path), o.path, o.method)>>)
    ELSE IF o.details["security"] = <<>>
    THEN Raised("IndexError")
    ELSE IF ~Has(o.details["security"][1], "OAuth2")
    THEN Returned(<<OperationViolation(rule,
            Description(rule.description, <<>>, o.method, o.path), o.path, o.method)>>)
    ELSE Returned(<<>>)

\* SEC004 with the test turned round: `"security" in details`
CheckSEC004WhenPresent(rule, o) ==
    IF Has(o.details, "security")
    THEN Returned(<<OperationViolation(rule,
            Description(rule.description, <<>>, o.method, o.path), o.path, o.method)>>)
    ELSE Returned(<<>>)

\* SEC004, lines 52-61
CheckSEC004(rule, o) ==
    IF ~Has(o.details, "security")
    THEN Returned(<<OperationViolation(rule,
            Description(rule.description, <<>>, o.method, o.path), o.path, o.method)>>)
    ELSE Returned(<<>>)

\* PERF001 and PERF002 differ in the headers they ask for, lines 67-99
CheckHeaders(rule, o, wanted) ==
    IF Has(o.details, "responses") /\ OHas(o.details["responses"], "200")
    THEN LET r200 == OGet(o.details["responses"], "200")
         IN  IF r200 = None
             THEN Raised("AttributeError")
             ELSE IF \E h \in wanted : ~Has(GetOr(r200, "headers", EmptyDict), h)
             THEN Returned(<<OperationViolation(rule,
                     Description(rule.description, <<>>, o.method, o.path),
                     o.path, o.method)>>)
             ELSE Returned(<<>>)
    ELSE Returned(<<>>)

CheckPERF001(rule, o) == CheckHeaders(rule, o, RateLimitHeaders)

CheckPERF002(rule, o) == CheckHeaders(rule, o, {"Cache-Control"})

\* CONSIST001, lines 105-117
CheckCONSIST001(rule, o) ==
    LET params == GetOr(o.details, "parameters", <<>>)
        RECURSIVE Walk(_)
        Walk(i) ==
            IF i > Len(params) THEN <<>>
            ELSE (IF Has(params[i], "name") /\ ~MatchesSnake(params[i]["name"])
                  THEN <<OperationViolation(rule,
                          Description("does not follow naming convention",
                                      params[i]["name"], o.method, o.path),
                          o.path, o.method)>>
                  ELSE <<>>) \o Walk(i + 1)
    IN  Returned(Walk(1))

\* DOC001, lines 136-148
CheckDOC001(rule, o) ==
    IF ~Has(o.details, "description") \/ Strip(o.details["description"]) = <<>>
    THEN Returned(<<OperationViolation(rule,
            Description(rule.description, <<>>, o.method, o.path), o.path, o.method)>>)
    ELSE Returned(<<>>)

\* not param.get("schema")
SchemaMissing(param) == ~Has(param, "schema") \/ param["schema"] = EmptyDict

\* PARAM001, lines 154-164
CheckPARAM001(rule, o) ==
    LET params == GetOr(o.details, "parameters", <<>>)
        RECURSIVE Walk(_, _)
        Walk(i, acc) ==
            IF i > Len(params) THEN Returned(acc)
            ELSE IF ~Has(params[i], "in") THEN Raised("KeyError")
            ELSE IF params[i]["in"] = "path" /\ SchemaMissing(params[i])
            THEN IF ~Has(params[i], "name") THEN Raised("KeyError")
                 ELSE Walk(i + 1, Append(acc, OperationViolation(rule,
                         Description(rule.description, params[i]["name"],
                                     o.method, o.path), o.path, o.method)))
            ELSE Walk(i + 1, acc)
    IN  Walk(1, <<>>)

\* RESP001, lines 170-181
CheckRESP001(rule, o) ==
    LET responses == GetOr(o.details, "responses", <<>>)
        RECURSIVE Walk(_)
        Walk(i) ==
            IF i > Len(responses) THEN <<>>
            ELSE (IF responses[i].v # None /\ ~Has(responses[i].v, "content")
                  THEN <<OperationViolation(rule,
                          Description(rule.description, <<responses[i].k>>,
                                      o.method, o.path), o.path, o.method)>>
                  ELSE <<>>) \o Walk(i + 1)
    IN  Returned(Walk(1))

\* a loop that returns at the first step that found a violation
CollectFirst(outcomes) ==
    LET RECURSIVE Walk(_)
        Walk(i) ==
            IF i > Len(outcomes) THEN Returned(<<>>)
            ELSE IF outcomes[i].err # "none" THEN Raised(outcomes[i].err)
            ELSE IF outcomes[i].violations # <<>> THEN Returned(outcomes[i].violations)
            ELSE Walk(i + 1)
    IN  Walk(1)

\* the violations of the steps of a loop, up to the first step that raises
Collect(outcomes) ==
    LET RECURSIVE Walk(_, _)
        Walk(i, acc) ==
            IF i > Len(outcomes) THEN Returned(acc)
            ELSE IF outcomes[i].err # "none" THEN Raised(outcomes[i].err)
            ELSE Walk(i + 1, acc \o outcomes[i].violations)
    IN  Walk(1, <<>>)

\* the branch of the if/elif chain taken for one operation
CheckOperation(rule, o) ==
    CASE rule.id = "SEC002" -> CheckSEC002(rule, o)
      [] rule.id = "SEC004" -> CheckSEC004(rule, o)
      [] rule.id = "PERF001" -> CheckPERF001(rule, o)
      [] rule.id = "PERF002" -> CheckPERF002(rule, o)
      [] rule.id = "CONSIST001" -> CheckCONSIST001(rule, o)
      [] rule.id = "DOC001" -> CheckDOC001(rule, o)
      [] rule.id = "PARAM001" -> CheckPARAM001(rule, o)
      [] rule.id = "RESP001" -> CheckRESP001(rule, o)
      [] OTHER -> Returned(<<>>)

\* VER001, lines 121-130: one violation per unversioned path key
CheckVER001(rule, api) ==
    LET paths == GetOr(api, "paths", <<>>)
        RECURSIVE Walk(_)
        Walk(i) ==
            IF i > Len(paths) THEN <<>>
            ELSE (IF ~MatchesVersion(paths[i].k)
                  THEN <<PathViolation(rule, paths[i].k)>> ELSE <<>>) \o Walk(i + 1)
    IN  Returned(Walk(1))

\* the ids validate_spec has a branch for
ValidatorRuleIds ==
    {"SEC002", "SEC004", "PERF001", "PERF002", "CONSIST001", "VER001",
     "DOC001", "PARAM001", "RESP001"}

\* the document traversal of one rule: paths, then methods, in document order;
\* every branch opens with api_spec.get, which a document that is None lacks
CheckRule(rule, api) ==
    IF rule.id \notin ValidatorRuleIds THEN Returned(<<>>)
    ELSE IF api = None THEN Raised("AttributeError")
    ELSE IF rule.id = "VER001" THEN CheckVER001(rule, api)
    ELSE Collect([i \in 1..Len(Operations(api)) |->
                    CheckOperation(rule, Operations(api)[i])])

\* the loop over the catalog, lines 27-183: the list returned or the
\* exception raised
ValidateOutcome(api, rls) ==
    Collect([i \in 1..Len(rls["rules"]) |-> CheckRule(rls["rules"][i], api)])

\* what a call hands back: its outcome, and its two arguments as the call
\* leaves them (both are passed by reference)
CallResult(outcome, api, rls) ==
    [violations |-> outcome.violations, err |-> outcome.err,
     api_spec |-> api, rules |-> rls]

\* a validate_spec that takes "paths" out of the document (pop for get)
validate_spec_popping(api, rls) ==
    CallResult(ValidateOutcome(api, rls),
         IF api = None THEN api ELSE [k \in (DOMAIN api) \ {"paths"} |-> api[k]],
         rls)

\* validate_spec(api_spec, rules)
validate_spec(api, rls) == CallResult(ValidateOutcome(api, rls), api, rls)

----------------------------------------------------------------------------
(* fixer.py: helpers *)

\* str.upper() on one character
UpperChar(c) ==
    CASE c = "a" -> "A" [] c = "b" -> "B" [] c = "d" -> "D"
      [] c = "i" -> "I" [] c = "p" -> "P" [] c = "v" -> "V"
      [] OTHER -> c

\* the substitution without the .lower() that follows it
to_snake_case_keeping_case(name) ==
    LET RECURSIVE Sub(_)
        Sub(i) ==
            IF i > Len(name) THEN <<>>
            ELSE (IF i > 1 /\ name[i] \in UpperLetters THEN <<"_">> ELSE <<>>)
                 \o <<name[i]>> \o Sub(i + 1)
    IN  Sub(1)

\* re.sub(r'(?<!^)(?=[A-Z])', '_', name).lower()
to_snake_case(name) ==
    LET RECURSIVE Sub(_)
        Sub(i) ==
            IF i > Len(name) THEN <<>>
            ELSE (IF i > 1 /\ name[i] \in UpperLetters THEN <<"_">> ELSE <<>>)
                 \o <<LowerChar(name[i])>> \o Sub(i + 1)
    IN  Sub(1)

\* name.split('_')
Split(name) ==
    LET RECURSIVE Parts(_, _)
        Parts(i, cur) ==
            IF i > Len(name) THEN <<cur>>
            ELSE IF name[i] = "_" THEN <<cur>> \o Parts(i + 1, <<>>)
            ELSE Parts(i + 1, Append(cur, name[i]))
    IN  Parts(1, <<>>)

\* x.title(): a letter that follows a letter is lowered, any other letter is raised
Title(x) ==
    [i \in 1..Len(x) |->
        IF i > 1 /\ x[i - 1] \in LowerLetters \cup UpperLetters
        THEN LowerChar(x[i]) ELSE UpperChar(x[i])]

\* parts[0] + ''.join(x.title() for x in parts[1:])
to_camel_case(name) ==
    LET parts == Split(name)
        RECURSIVE Join(_)
        Join(i) == IF i > Len(parts) THEN <<>> ELSE Title(parts[i]) \o Join(i + 1)
    IN  parts[1] \o Join(2)

\* re.findall(r'{(.*?)}', path)
FindBraced(path) ==
    LET RECURSIVE Scan(_)
        Scan(i) ==
            IF i > Len(path) THEN <<>>
            ELSE IF path[i] = "{" /\ \E j \in (i + 1)..Len(path) : path[j] = "}"
            THEN LET j == CHOOSE c \in (i + 1)..Len(path) :
                            /\ path[c] = "}"
                            /\ \A b \in (i + 1)..(c - 1) : path[b] # "}"
                 IN  <<SubSeq(path, i + 1, j - 1)>> \o Scan(j + 1)
            ELSE Scan(i + 1)
    IN  Scan(1)

\* the text generate_ai_content returns when the generation call raises
Fallback == <<"This is a fallback placeholder.">>

\* generate_ai_content(prompt), lines 20-33; outcome is what the generation
\* call did: raised, or answered with some content
\* an except branch that returns an empty string
generate_ai_content_empty(outcome) ==
    IF outcome.raised THEN <<>> ELSE Strip(outcome.content)

generate_ai_content(outcome) ==
    IF outcome.raised THEN Fallback ELSE Strip(outcome.content)

\* not x, for a str
Empty(x) == x = <<>>

(* the locals of one iteration of fix_spec's loop *)

Frame(api, viols, path, method) ==
    [api |-> api, violations |-> viols, path |-> path, method |-> method,
     err |-> "none"]

Raise(f, e) == [f EXCEPT !.err = e]

\* api_spec['paths'][path][method]
Operation(api, path, method) == OGet(OGet(api["paths"], path), method)

\* path in api_spec['paths'] and method in api_spec['paths'][path]
HasOperation(api, path, method) ==
    OHas(api["paths"], path) /\ OHas(OGet(api["paths"], path), method)

\* api_spec['paths'][path][method] = op
SetOperation(api, path, method, op) ==
    DSet(api, "paths",
         OSet(api["paths"], path, OSet(OGet(api["paths"], path), method, op)))

\* what a handler body leaves behind: the operation written back, or the
\* exception it raised; u is [op |-> operation afterwards, err |-> exception or "none"]
Applied(f, path, method, u) ==
    IF u.err # "none" THEN Raise(f, u.err)
    ELSE [f EXCEPT !.api = SetOperation(f.api, path, method, u.op)]

\* the guard every operation handler opens with:
\* path in api_spec['paths'] and method in api_spec['paths'][path]
Located(f, path, method) ==
    IF ~Has(f.api, "paths") THEN "KeyError"
    ELSE IF HasOperation(f.api, path, method) THEN "present" ELSE "absent"

Done(op) == [op |-> op, err |-> "none"]
Failed(op, e) == [op |-> op, err |-> e]

----------------------------------------------------------------------------
(* fixer.fix_spec: the handlers of the first if/elif chain, lines 66-164 *)

OAuthScopes == <<[OAuth2 |-> ListVal(<<"write", "read">>)]>>

DefaultSecurityScheme ==
    <<[OAuth2 |-> [flows |-> [implicit |->
        [authorizationUrl |-> "https://example.com/oauth/authorize",
         scopes |-> [read |-> "Grants read access", write |-> "Grants write access"]]]]]>>

RateLimitSchema == [schema |-> [type |-> "integer"]]

CacheControlSchema ==
    [schema |-> [type |-> "string",
                 description |-> "Caching directive for improving performance"]]

\* SEC002, lines 67-74
\* the body of SEC002 on the operation it found
UpdateSEC002(op, v) ==
    Done(DSet(op, "security", OAuthScopes))

FixSEC002(f, v) ==
    IF Located(f, f.path, f.method) = "KeyError" THEN Raise(f, "KeyError")
    ELSE IF Located(f, f.path, f.method) = "absent" THEN f
    ELSE Applied(f, f.path, f.method,
                 UpdateSEC002(Operation(f.api, f.path, f.method), v))

\* SEC003, lines 77-81
FixSEC003(f, v) ==
    LET servers == GetOr(f.api, "servers", <<>>)
        Https(url) == [i \in 1..Len(url) |->
                         IF url[i] = "http://" THEN "https://" ELSE url[i]]
    IN  IF \E i \in 1..Len(servers) : ~Has(servers[i], "url")
        THEN LET bad == CHOOSE i \in 1..Len(servers) :
                            /\ ~Has(servers[i], "url")
                            /\ \A j \in 1..(i - 1) : Has(servers[j], "url")
             IN  [f EXCEPT !.err = "KeyError",
                           !.api = DSet(f.api, "servers",
                               [i \in 1..Len(servers) |->
                                   IF i < bad THEN DSet(servers[i], "url", Https(servers[i]["url"]))
                                   ELSE servers[i]])]
        ELSE IF servers = <<>> THEN f
        ELSE [f EXCEPT !.api = DSet(f.api, "servers",
                 [i \in 1..Len(servers) |->
                     DSet(servers[i], "url", Https(servers[i]["url"]))])]

\* a SEC004 body without the test for an existing "security"
UpdateSEC004Always(op, v) ==
    Done(DSet(op, "security", DefaultSecurityScheme))

\* SEC004, lines 84-102
\* the body of SEC004 on the operation it found
UpdateSEC004(op, v) ==
    IF ~Has(op, "security")
    THEN Done(DSet(op, "security", DefaultSecurityScheme))
    ELSE Done(op)

FixSEC004(f, v) ==
    IF Located(f, v["path"], v["method"]) = "KeyError" THEN Raise(f, "KeyError")
    ELSE IF Located(f, v["path"], v["method"]) = "absent" THEN f
    ELSE Applied(f, v["path"], v["method"],
                 UpdateSEC004(Operation(f.api, v["path"], v["method"]), v))

\* the body shared by PERF001 and PERF002: headers added to response "200"
AddHeaders200(op, added) ==
    LET responses == GetOr(op, "responses", <<>>)
    IN  IF ~OHas(responses, "200") THEN Done(op)
        ELSE LET r200 == OGet(responses, "200")
             IN  IF r200 = None THEN Failed(op, "TypeError")
                 ELSE Done(DSet(op, "responses",
                        OSet(responses, "200",
                             DSet(r200, "headers",
                                  DUpdate(GetOr(r200, "headers", EmptyDict), added)))))

\* PERF001, lines 105-116
\* the body of PERF001 on the operation it found
UpdatePERF001(op, v) ==
    AddHeaders200(op, [h \in RateLimitHeaders |-> RateLimitSchema])

FixPERF001(f, v) ==
    IF Located(f, v["path"], v["method"]) = "KeyError" THEN Raise(f, "KeyError")
    ELSE IF Located(f, v["path"], v["method"]) = "absent" THEN f
    ELSE Applied(f, v["path"], v["method"],
                 UpdatePERF001(Operation(f.api, v["path"], v["method"]), v))

\* PERF002, lines 119-128
\* the body of PERF002 on the operation it found
UpdatePERF002(op, v) ==
    AddHeaders200(op, [h \in {"Cache-Control"} |-> CacheControlSchema])

FixPERF002(f, v) ==
    IF Located(f, v["path"], v["method"]) = "KeyError" THEN Raise(f, "KeyError")
    ELSE IF Located(f, v["path"], v["method"]) = "absent" THEN f
    ELSE Applied(f, v["path"], v["method"],
                 UpdatePERF002(Operation(f.api, v["path"], v["method"]), v))

\* CONSIST001, lines 131-137
\* the body of CONSIST001 on the operation it found
UpdateCONSIST001(op, v) ==
    IF ~Has(op, "parameters") THEN Done(op)
    ELSE Done(DSet(op, "parameters",
           [i \in 1..Len(op["parameters"]) |->
              IF Has(op["parameters"][i], "name")
              THEN DSet(op["parameters"][i], "name",
                        to_snake_case(op["parameters"][i]["name"]))
              ELSE op["parameters"][i]]))

FixCONSIST001(f, v) ==
    IF Located(f, v["path"], v["method"]) = "KeyError" THEN Raise(f, "KeyError")
    ELSE IF Located(f, v["path"], v["method"]) = "absent" THEN f
    ELSE Applied(f, v["path"], v["method"],
                 UpdateCONSIST001(Operation(f.api, v["path"], v["method"]), v))

\* new_properties of CONSIST002: keys renamed in order, a later equal key overwrites
RenameProperties(props) ==
    LET RECURSIVE Build(_, _)
        Build(i, acc) ==
            IF i > Len(props) THEN acc
            ELSE Build(i + 1, OSet(acc, to_camel_case(props[i].k), props[i].v))
    IN  Build(1, <<>>)

\* CONSIST002, lines 140-148
FixCONSIST002(f, v) ==
    IF ~Has(v, "schema") THEN Raise(f, "KeyError")
    ELSE IF ~Has(f.api, "components") THEN Raise(f, "KeyError")
    ELSE IF ~Has(f.api["components"], "schemas") THEN Raise(f, "KeyError")
    ELSE LET schemas == f.api["components"]["schemas"]
         IN  IF ~OHas(schemas, v["schema"]) THEN f
             ELSE LET schema == OGet(schemas, v["schema"])
                      renamed == DSet(schema, "properties",
                                      RenameProperties(GetOr(schema, "properties", <<>>)))
                  IN  [f EXCEPT !.api = DSet(f.api, "components",
                          DSet(f.api["components"], "schemas",
                               OSet(schemas, v["schema"], renamed)))]

\* the text DEP001 appends to a description
DeprecationNote == <<"LF", "Use the following alternative: /v2/transactions.">>

\* DEP001, lines 151-157; its loop variable is fix_spec's local `method`
FixDEP001(f, v) ==
    IF ~Has(f.api, "paths") THEN Raise(f, "KeyError")
    ELSE IF ~OHas(f.api["paths"], v["path"]) THEN f
    ELSE LET methods == OGet(f.api["paths"], v["path"])
             Mark(op) ==
                 LET d == DSet(op, "deprecated", TRUE)
                 IN  IF Has(op, "description")
                     THEN DSet(d, "description", op["description"] \o DeprecationNote)
                     ELSE d
             marked == [i \in 1..Len(methods) |-> Entry(methods[i].k, Mark(methods[i].v))]
         IN  [f EXCEPT !.api = DSet(f.api, "paths", OSet(f.api["paths"], v["path"], marked)),
                       !.method = IF methods = <<>> THEN f.method
                                  ELSE methods[Len(methods)].k]

\* "/v1" + path
Versioned(path) == <<"/", "v", "1">> \o path

\* api_spec['paths'][new_path] = api_spec['paths'].pop(violation['path'])
MovePath(paths, path) ==
    OSet(ORemove(paths, path), Versioned(path), OGet(paths, path))

\* VER001, lines 160-164
FixVER001(f, v) ==
    IF ~Has(f.api, "paths") THEN Raise(f, "KeyError")
    ELSE IF ~OHas(f.api["paths"], v["path"]) THEN f
    ELSE [f EXCEPT !.api = DSet(f.api, "paths", MovePath(f.api["paths"], v["path"]))]

\* the first if/elif chain
FirstChain(f, v) ==
    CASE v["id"] = "SEC002" -> FixSEC002(f, v)
      [] v["id"] = "SEC003" -> FixSEC003(f, v)
      [] v["id"] = "SEC004" -> FixSEC004(f, v)
      [] v["id"] = "PERF001" -> FixPERF001(f, v)
      [] v["id"] = "PERF002" -> FixPERF002(f, v)
      [] v["id"] = "CONSIST001" -> FixCONSIST001(f, v)
      [] v["id"] = "CONSIST002" -> FixCONSIST002(f, v)
      [] v["id"] = "DEP001" -> FixDEP001(f, v)
      [] v["id"] = "VER001" -> FixVER001(f, v)
      [] OTHER -> f

----------------------------------------------------------------------------
(* fixer.fix_spec: the later chains of the loop body, lines 167-280.         *)
(* ai[k] is what the k-th generation call of the iteration does.             *)

\* DOC001, lines 168-173
\* the body of DOC001 on the operation it found
UpdateDOC001(op, v, ai) ==
    IF Empty(GetOr(op, "description", <<>>))
    THEN Done(DSet(op, "description", generate_ai_content(ai[1])))
    ELSE Done(op)

FixDOC001(f, v, ai) ==
    IF Located(f, v["path"], v["method"]) = "KeyError" THEN Raise(f, "KeyError")
    ELSE IF Located(f, v["path"], v["method"]) = "absent" THEN f
    ELSE Applied(f, v["path"], v["method"],
                 UpdateDOC001(Operation(f.api, v["path"], v["method"]), v, ai))

\* f"operationId_placeholder_{violation['method']}"
OperationIdPlaceholder(method) == <<"operationId_placeholder_", method>>

\* OP_ID001, lines 176-185
\* the body of OP_ID001 on the operation it found
UpdateOP_ID001(op, v, ai) ==
    LET ai_operation_id == generate_ai_content(ai[1])
    IN  IF ~Empty(ai_operation_id)
        THEN Done(DSet(op, "operationId", ai_operation_id))
        ELSE Done(DSet(op, "operationId",
                       OperationIdPlaceholder(v["method"])))

FixOP_ID001(f, v, ai) ==
    IF Located(f, v["path"], v["method"]) = "KeyError" THEN Raise(f, "KeyError")
    ELSE IF Located(f, v["path"], v["method"]) = "absent" THEN f
    ELSE Applied(f, v["path"], v["method"],
                 UpdateOP_ID001(Operation(f.api, v["path"], v["method"]), v, ai))

\* the definition PARAM001 appends for a name found in the path
PathParameter(name) ==
    [name |-> name, in |-> "path", required |-> TRUE,
     schema |-> [type |-> "string"],
     description |-> <<"The ">> \o name \o <<" path parameter">>]

\* PARAM001 and UnresolvableParameterError, lines 188-210
\* the body of PARAM001 on the operation it found
UpdatePARAM001(op, v) ==
    LET path_parameters == GetOr(op, "parameters", <<>>)
        bad == \E i \in 1..Len(path_parameters) :
                  \/ ~Has(path_parameters[i], "in")
                  \/ /\ path_parameters[i]["in"] = "path"
                     /\ ~Has(path_parameters[i], "name")
        param_names == {path_parameters[i]["name"] :
                          i \in {j \in 1..Len(path_parameters) :
                                   path_parameters[j]["in"] = "path"}}
        missing_params == FindBraced(v["path"])
        RECURSIVE Added(_)
        Added(i) ==
            IF i > Len(missing_params) THEN <<>>
            ELSE (IF missing_params[i] \notin param_names
                  THEN <<PathParameter(missing_params[i])>> ELSE <<>>)
                 \o Added(i + 1)
    IN  IF bad THEN Failed(op, "KeyError")
        ELSE IF Added(1) = <<>> THEN Done(op)
        ELSE Done(DSet(op, "parameters", path_parameters \o Added(1)))

FixPARAM001(f, v) ==
    IF Located(f, v["path"], v["method"]) = "KeyError" THEN Raise(f, "KeyError")
    ELSE IF Located(f, v["path"], v["method"]) = "absent" THEN f
    ELSE Applied(f, v["path"], v["method"],
                 UpdatePARAM001(Operation(f.api, v["path"], v["method"]), v))

\* PARAM_DESC001, lines 213-218: the k-th parameter lacking a description
\* takes the k-th generated text; a parameter without a name raises when
\* the prompt is built
\* the body of PARAM_DESC001 on the operation it found
UpdatePARAM_DESC001(op, v, ai) ==
    LET params == GetOr(op, "parameters", <<>>)
        Lacks(i) == Empty(GetOr(params[i], "description", <<>>))
        Stops(i) == Lacks(i) /\ ~Has(params[i], "name")
        stop == IF \E i \in 1..Len(params) : Stops(i)
                THEN CHOOSE i \in 1..Len(params) :
                        Stops(i) /\ \A j \in 1..(i - 1) : ~Stops(j)
                ELSE Len(params) + 1
        Call(i) == Cardinality({j \in 1..i : Lacks(j)})
        filled == [i \in 1..Len(params) |->
                     IF i < stop /\ Lacks(i)
                     THEN DSet(params[i], "description",
                               generate_ai_content(ai[Call(i)]))
                     ELSE params[i]]
        op2 == IF Has(op, "parameters")
               THEN DSet(op, "parameters", filled) ELSE op
    IN  IF stop <= Len(params) THEN Failed(op2, "KeyError")
        ELSE Done(op2)

FixPARAM_DESC001(f, v, ai) ==
    IF Located(f, v["path"], v["method"]) = "KeyError" THEN Raise(f, "KeyError")
    ELSE IF Located(f, v["path"], v["method"]) = "absent" THEN f
    ELSE Applied(f, v["path"], v["method"],
                 UpdatePARAM_DESC001(Operation(f.api, v["path"], v["method"]), v, ai))

DefaultContent ==
    [a \in {"application/json"} |->
        [schema |-> [ref \in {"$ref"} |-> "#/components/schemas/Pet"]]]

AllHeaders ==
    [h \in RateLimitHeaders \cup {"Cache-Control"} |->
        IF h = "Cache-Control" THEN CacheControlSchema ELSE RateLimitSchema]

\* a RESP001 body that assigns the headers dict instead of its four keys
UpdateRESP001Overwriting(op, v) ==
    LET responses == GetOr(op, "responses", <<>>)
        Fixed(response) ==
            LET r0 == IF response = None THEN EmptyDict ELSE response
                r1 == IF ~Has(r0, "content")
                      THEN DSet(r0, "content", DefaultContent) ELSE r0
            IN  DSet(r1, "headers", AllHeaders)
    IN  IF responses = <<>> THEN Done(op)
        ELSE Done(DSet(op, "responses",
               [i \in 1..Len(responses) |->
                  Entry(responses[i].k, Fixed(responses[i].v))]))

\* RESP001, lines 221-255
\* the body of RESP001 on the operation it found
UpdateRESP001(op, v) ==
    LET responses == GetOr(op, "responses", <<>>)
        Fixed(response) ==
            LET r0 == IF response = None THEN EmptyDict ELSE response
                r1 == IF ~Has(r0, "content")
                      THEN DSet(r0, "content", DefaultContent) ELSE r0
            IN  DSet(r1, "headers",
                     DUpdate(GetOr(r1, "headers", EmptyDict), AllHeaders))
    IN  IF responses = <<>> THEN Done(op)
        ELSE Done(DSet(op, "responses",
               [i \in 1..Len(responses) |->
                  Entry(responses[i].k, Fixed(responses[i].v))]))

FixRESP001(f, v) ==
    IF Located(f, v["path"], v["method"]) = "KeyError" THEN Raise(f, "KeyError")
    ELSE IF Located(f, v["path"], v["method"]) = "absent" THEN f
    ELSE Applied(f, v["path"], v["method"],
                 UpdateRESP001(Operation(f.api, v["path"], v["method"]), v))

\* OP_SUM001, lines 265-270
\* the body of OP_SUM001 on the operation it found
UpdateOP_SUM001(op, v, ai) ==
    IF Empty(GetOr(op, "summary", <<>>))
    THEN Done(DSet(op, "summary", generate_ai_content(ai[1])))
    ELSE Done(op)

FixOP_SUM001(f, v, ai) ==
    IF Located(f, f.path, f.method) = "KeyError" THEN Raise(f, "KeyError")
    ELSE IF Located(f, f.path, f.method) = "absent" THEN f
    ELSE Applied(f, f.path, f.method,
                 UpdateOP_SUM001(Operation(f.api, f.path, f.method), v, ai))

\* SCHEMA_DESC001, lines 274-280: the k-th property lacking a description
\* takes the k-th generated text
FixSCHEMA_DESC001(f, v, ai) ==
    IF ~Has(v, "schema") THEN Raise(f, "KeyError")
    ELSE IF ~Has(f.api, "components") THEN Raise(f, "KeyError")
    ELSE IF ~Has(f.api["components"], "schemas") THEN Raise(f, "KeyError")
    ELSE LET schemas == f.api["components"]["schemas"]
         IN  IF ~OHas(schemas, v["schema"]) THEN f
             ELSE LET schema == OGet(schemas, v["schema"])
                      props == GetOr(schema, "properties", <<>>)
                      Lacks(i) == ~Has(props[i].v, "description")
                      Call(i) == Cardinality({j \in 1..i : Lacks(j)})
                      filled == [i \in 1..Len(props) |->
                                   IF Lacks(i)
                                   THEN Entry(props[i].k,
                                              DSet(props[i].v, "description",
                                                   generate_ai_content(ai[Call(i)])))
                                   ELSE props[i]]
                      schema2 == IF Has(schema, "properties")
                                 THEN DSet(schema, "properties", filled) ELSE schema
                  IN  [f EXCEPT !.api = DSet(f.api, "components",
                          DSet(f.api["components"], "schemas",
                               OSet(schemas, v["schema"], schema2)))]

\* lines 168-185: if DOC001 / elif OP_ID001
SecondChain(f, v, ai) ==
    IF f.err # "none" THEN f ELSE
    CASE v["id"] = "DOC001" -> FixDOC001(f, v, ai)
      [] v["id"] = "OP_ID001" -> FixOP_ID001(f, v, ai)
      [] OTHER -> f

\* lines 188-218: if PARAM001 or UnresolvableParameterError / elif PARAM_DESC001
ThirdChain(f, v, ai) ==
    IF f.err # "none" THEN f ELSE
    CASE v["id"] \in {"PARAM001", "UnresolvableParameterError"} -> FixPARAM001(f, v)
      [] v["id"] = "PARAM_DESC001" -> FixPARAM_DESC001(f, v, ai)
      [] OTHER -> f

\* lines 221-255: if RESP001
FourthChain(f, v) ==
    IF f.err # "none" THEN f
    ELSE IF v["id"] = "RESP001" THEN FixRESP001(f, v) ELSE f

RequestBodyPlaceholder == <<"Description not provided.">>

\* lines 258-280: the requestBody repair reads api_spec['paths'][path][method]
\* unguarded; OP_SUM001 and SCHEMA_DESC001 are its elif branches
FifthChain(f, v, ai) ==
    IF f.err # "none" THEN f
    ELSE IF ~Has(f.api, "paths") THEN Raise(f, "KeyError")
    ELSE IF ~HasOperation(f.api, f.path, f.method) THEN Raise(f, "KeyError")
    ELSE LET op == Operation(f.api, f.path, f.method)
         IN  IF Has(op, "requestBody")
             THEN IF ~Has(op["requestBody"], "description")
                  THEN [f EXCEPT !.api = SetOperation(f.api, f.path, f.method,
                          DSet(op, "requestBody",
                               DSet(op["requestBody"], "description",
                                    RequestBodyPlaceholder)))]
                  ELSE f
             ELSE IF v["id"] = "OP_SUM001" THEN FixOP_SUM001(f, v, ai)
             ELSE IF v["id"] = "SCHEMA_DESC001" THEN FixSCHEMA_DESC001(f, v, ai)
             ELSE f

----------------------------------------------------------------------------
(* fixer.fix_spec: the tail of the loop body, lines 282-346 *)

DefaultResponse == [description |-> <<"Default response">>]

\* a pass that stops at the first None entry it has replaced
SanitizeResponsesFirst(responses) ==
    [i \in 1..Len(responses) |->
        IF responses[i].v = None /\ (\A j \in 1..(i - 1) : responses[j].v # None)
        THEN Entry(responses[i].k, DefaultResponse) ELSE responses[i]]

\* every None entry of one responses dict replaced, lines 286-292 and 324-330
SanitizeResponses(responses) ==
    [i \in 1..Len(responses) |->
        IF responses[i].v = None
        THEN Entry(responses[i].k, DefaultResponse) ELSE responses[i]]

SanitizeOperation(details) ==
    IF Has(details, "responses")
    THEN DSet(details, "responses", SanitizeResponses(details["responses"]))
    ELSE details

\* the sweep over the whole document, lines 283-292
SanitizeDocument(api) ==
    IF ~Has(api, "paths") THEN api
    ELSE DSet(api, "paths",
              [i \in 1..Len(api["paths"]) |->
                 Entry(api["paths"][i].k,
                       [j \in 1..Len(api["paths"][i].v) |->
                          Entry(api["paths"][i].v[j].k,
                                SanitizeOperation(api["paths"][i].v[j].v))])])

Sanitation(f) ==
    IF f.err # "none" THEN f ELSE [f EXCEPT !.api = SanitizeDocument(f.api)]

\* lines 301-303: `for v in violations: if v['path'] == violation['path']`;
\* violation['path'] is read again at every step, so once the loop has
\* rewritten the current violation itself it compares against the new key
PropagatePath(viols, i, new_path) ==
    LET RECURSIVE Walk(_, _)
        Walk(j, vs) ==
            IF j > Len(vs) THEN [violations |-> vs, err |-> "none"]
            ELSE IF ~Has(vs[j], "path") THEN [violations |-> vs, err |-> "KeyError"]
            ELSE IF vs[j]["path"] = vs[i]["path"]
            THEN Walk(j + 1, [vs EXCEPT ![j] = DSet(vs[j], "path", new_path)])
            ELSE Walk(j + 1, vs)
    IN  Walk(1, viols)

\* the second VER001 block, lines 294-303
SecondVER001(f, i) ==
    LET v == f.violations[i]
    IN  IF f.err # "none" THEN f
        ELSE IF v["id"] # "VER001" THEN f
        ELSE IF ~Has(f.api, "paths") THEN Raise(f, "KeyError")
        ELSE IF ~OHas(f.api["paths"], v["path"]) THEN f
        ELSE LET moved == DSet(f.api, "paths", MovePath(f.api["paths"], v["path"]))
                 p == PropagatePath(f.violations, i, Versioned(v["path"]))
             IN  [f EXCEPT !.api = moved, !.violations = p.violations, !.err = p.err]

\* not x, for the value of violation.get(key)
Missing(v, key) ==
    IF ~Has(v, key) THEN TRUE
    ELSE IF key = "method" THEN v[key] = "" ELSE v[key] = <<>>

\* the inner loop over all violations, lines 305-332
InnerLoop(f) ==
    LET vs == f.violations
        RECURSIVE Walk(_, _)
        Walk(j, api) ==
            IF j > Len(vs) THEN [f EXCEPT !.api = api]
            ELSE IF Missing(vs[j], "path") \/ Missing(vs[j], "method") THEN Walk(j + 1, api)
            ELSE IF ~Has(api, "paths") THEN [f EXCEPT !.api = api, !.err = "KeyError"]
            ELSE IF ~HasOperation(api, vs[j]["path"], vs[j]["method"]) THEN Walk(j + 1, api)
            ELSE IF ~Has(vs[j], "id") THEN [f EXCEPT !.api = api, !.err = "KeyError"]
            ELSE IF vs[j]["id"] = "RESP001"
            THEN Walk(j + 1, SetOperation(api, vs[j]["path"], vs[j]["method"],
                        SanitizeOperation(Operation(api, vs[j]["path"], vs[j]["method"]))))
            ELSE Walk(j + 1, api)
    IN  IF f.err # "none" THEN f ELSE Walk(1, f.api)

\* one pass of the loop body for violations[i], lines 64-346, for a violation
\* that carries a method and a path
LoopBody(api, viols, i, ai) ==
    LET v == viols[i]
        s0 == {Frame(api, viols, v["path"], v["method"])}
        s1 == {FirstChain(f, v) : f \in s0}
        s2 == {SecondChain(f, v, ai) : f \in s1}
        s3 == {ThirdChain(f, v, ai) : f \in s2}
        s4 == {FourthChain(f, v) : f \in s3}
        s5 == {FifthChain(f, v, ai) : f \in s4}
        s6 == {Sanitation(f) : f \in s5}
        s7 == {SecondVER001(f, i) : f \in s6}
        s8 == {InnerLoop(f) : f \in s7}
    IN  CHOOSE f \in s8 : TRUE

----------------------------------------------------------------------------
(* Inputs *)

MaxPaths == 2        \* path entries of a document
MaxMethods == 2      \* operations under one path
MaxParams == 2       \* parameters of an operation
MaxResponses == 2    \* responses of an operation
MaxRules == 2        \* rules of a catalog
MaxViolations == 2   \* violations of a list written by hand

\* all sequences over S of length at most n
RECURSIVE SeqsUpTo(_, _)
SeqsUpTo(S, n) ==
    IF n = 0 THEN {<<>>}
    ELSE LET shorter == SeqsUpTo(S, n - 1)
         IN  shorter \cup {Append(s, x) : s \in shorter, x \in S}

Distinct(s) == \A i, j \in 1..Len(s) : s[i] = s[j] => i = j

\* "/p", "/v1/p" (the key "/p" is moved to), "/p/{i}", "/d"
PathKeys ==
    {<<"/", "p">>, <<"/", "v", "1", "/", "p">>,
     <<"/", "p", "/", "{", "i", "}">>, <<"/", "d">>}

Methods == {"get", "post", "put"}

StatusCodes == {"200", "404", "500"}

ParamValues ==
    {[name |-> <<"i">>, in |-> "path"],
     [name |-> <<"a", "B">>, in |-> "query", schema |-> [type |-> "string"]],
     [name |-> <<"a">>],
     [in |-> "path"]}

FullResponse ==
    [description |-> <<"d">>, headers |-> AllHeaders, content |-> DefaultContent]

ResponseValues == {None, EmptyDict, FullResponse}

SecurityValues == {<<>>, <<[ApiKey |-> ListVal(<<>>)]>>, OAuthScopes}

DescriptionValues == {<<>>, <<" ">>, <<"d">>}

RequestBodyValues == {EmptyDict, [description |-> <<"d">>]}

ParameterLists == SeqsUpTo(ParamValues, MaxParams)

ResponseDicts ==
    {[i \in 1..Len(codes) |-> Entry(codes[i], vals[i])] :
        <<codes, vals>> \in
            {cv \in SeqsUpTo(StatusCodes, MaxResponses)
                    \X SeqsUpTo(ResponseValues, MaxResponses) :
                Len(cv[1]) = Len(cv[2]) /\ Distinct(cv[1])}}

\* operations that carry one field
OneField ==
    {[security |-> x] : x \in SecurityValues}
    \cup {[description |-> x] : x \in DescriptionValues}
    \cup {[summary |-> <<"s">>]}
    \cup {[parameters |-> x] : x \in ParameterLists}
    \cup {[responses |-> x] : x \in ResponseDicts}

\* an operation in which validate_spec finds nothing
CompliantOperation ==
    [security |-> OAuthScopes, description |-> <<"d">>, summary |-> <<"s">>,
     responses |-> <<Entry("200", FullResponse)>>]

\* the operations of the one-operation documents
OperationValues ==
    LET base == {EmptyDict, CompliantOperation} \cup OneField
    IN  base \cup {DSet(o, "requestBody", rb) :
                      o \in {EmptyDict, CompliantOperation}, rb \in RequestBodyValues}

\* the operations of the documents with several paths and methods
FewOperations ==
    {EmptyDict,
     [description |-> <<"d">>,
      responses |-> <<Entry("404", EmptyDict), Entry("200", EmptyDict)>>]}

\* documents with one path and one operation
OneOperationDocuments ==
    {[paths |-> <<Entry(p, <<Entry("get", o)>>)>>] :
        p \in PathKeys \ {<<"/", "d">>}, o \in OperationValues}

\* documents in which every path carries the same methods and operation
UniformDocuments ==
    {[paths |-> [i \in 1..Len(ps) |->
                   Entry(ps[i], [j \in 1..Len(ms) |-> Entry(ms[j], o)])]] :
        ps \in {s \in SeqsUpTo(PathKeys, MaxPaths) : Distinct(s)},
        ms \in {s \in SeqsUpTo(Methods, MaxMethods) : Distinct(s)},
        o \in FewOperations}

\* documents with servers and components, or without paths
OtherDocuments ==
    {EmptyDict,
     [paths |-> <<Entry(<<"/", "p">>, <<Entry("get", EmptyDict)>>)>>,
      servers |-> <<[url |-> <<"http://", "h">>], [url |-> <<"https://", "h">>]>>,
      components |-> [schemas |-> <<Entry("Pet",
          [properties |-> <<Entry(<<"a", "_", "b">>, [type |-> "string"]),
                            Entry(<<"a", "B">>, [description |-> <<"d">>])>>])>>]]}

\* the rule record of the catalog file
Rule(id) == [id |-> id, description |-> id, fix |-> [fix_snippet |-> id]]

Catalog(ids) == [rules |-> [i \in 1..Len(ids) |-> Rule(ids[i])]]

\* catalogs of one rule, a rule validate_spec has no branch for included
SingleRuleCatalogs == {Catalog(<<id>>) : id \in ValidatorRuleIds \cup {"SEC003"}}

Catalogs ==
    {Catalog(ids) : ids \in {s \in SeqsUpTo(ValidatorRuleIds, MaxRules) : Distinct(s)}}

\* the ids of the base rules, in the order of the catalog text
BaseRuleIds ==
    <<"SEC002", "SEC003", "SEC004", "PERF001", "PERF002", "PRIV001", "PRIV002",
      "CONSIST001", "CONSIST002", "DEP001", "VER001", "DOC001", "OP_ID001",
      "PARAM001", "RESP001", "SERVER001">>

\* load_rules on the base rules
BaseCatalog == Catalog(BaseRuleIds)

\* the document of test_security_rule: POST /transactions with a summary only
\* (a path segment no pattern looks into is kept as one element)
TransactionsDocument ==
    [openapi |-> "3.0.0",
     paths |-> <<Entry(<<"/", "transactions">>,
                       <<Entry("post", [summary |-> <<"Create a new transaction">>])>>)>>]

\* GET /pets with a "200" response that has neither headers nor content
PetsDocuments ==
    {[paths |-> <<Entry(<<"/", "pets">>,
                        <<Entry("get", [responses |-> <<Entry("200", r)>>])>>)>>] :
        r \in {EmptyDict, [description |-> <<"d">>]}}

\* the catalog of the four rules the /pets document breaks
PetsCatalog == Catalog(<<"VER001", "PERF001", "PERF002", "RESP001">>)

\* a response that carries headers and a content entry of its own
CustomResponse ==
    [description |-> <<"d">>,
     headers |-> [h \in {"X-RateLimit-Limit", "X-Trace"} |->
                    [schema |-> [type |-> "string"]]],
     content |-> [a \in {"text/plain"} |-> EmptyDict]]

\* GET /p with such a response under "200"
HeaderDocuments ==
    {[paths |-> <<Entry(<<"/", "p">>,
                        <<Entry("get", [responses |->
                            <<Entry("200", CustomResponse), Entry("404", r)>>])>>)>>] :
        r \in {None, FullResponse}}

\* a document that holds "/p" and, with another operation, "/v1/p"
VersionedDocuments ==
    {[paths |-> <<Entry(<<"/", "p">>, <<Entry("get", EmptyDict)>>),
                  Entry(<<"/", "v", "1", "/", "p">>,
                        <<Entry("get", [description |-> <<"d">>])>>)>>]}

\* GET /p with one query parameter whose name has a digit, a leading
\* underscore or a doubled underscore
NamingDocuments ==
    {[paths |-> <<Entry(<<"/", "p">>,
                        <<Entry("get", [parameters |->
                            <<[name |-> n, in |-> "query"]>>])>>)>>] :
        n \in {<<"a", "1">>, <<"_", "a">>, <<"a", "_", "_", "b">>}}

ScenarioDocuments ==
    {TransactionsDocument} \cup PetsDocuments \cup HeaderDocuments
        \cup VersionedDocuments \cup NamingDocuments

ScenarioCatalogs ==
    {BaseCatalog, PetsCatalog, Catalog(<<"SEC004", "SEC002">>),
     Catalog(<<"SEC002", "SEC004">>)}

\* the ids fix_spec has a branch for, and one it has none for
HandlerIds ==
    {"SEC002", "SEC003", "SEC004", "PERF001", "PERF002", "CONSIST001",
     "CONSIST002", "DEP001", "VER001", "DOC001", "OP_ID001", "PARAM001",
     "UnresolvableParameterError", "PARAM_DESC001", "RESP001", "OP_SUM001",
     "SCHEMA_DESC001", "PRIV001"}

\* a violation written by hand; one that names a schema carries its key
HandViolation(id, path, method) ==
    LET v == [id |-> id, path |-> path, method |-> method]
    IN  IF id \in {"CONSIST002", "SCHEMA_DESC001"} THEN DSet(v, "schema", "Pet") ELSE v

\* a violation without "method", the shape validate_spec gives VER001
HandPathViolation(id, path) == [id |-> id, path |-> path]

\* the first operation of the document, or a fixed target for a document without one
FirstTarget(api) ==
    LET ops == Operations(api)
    IN  IF ops = <<>> THEN [path |-> <<"/", "p">>, method |-> "get"]
        ELSE [path |-> ops[1].path, method |-> ops[1].method]

\* a path key and a method the one-operation documents never hold
AbsentPath == <<"/", "d">>
AbsentMethod == "put"

FirstViolations(api) ==
    LET t == FirstTarget(api)
    IN  {HandViolation(id, t.path, t.method) : id \in HandlerIds}
        \cup {HandViolation(id, AbsentPath, t.method) : id \in HandlerIds}
        \cup {HandViolation(id, t.path, AbsentMethod) : id \in HandlerIds}
        \cup {HandPathViolation(id, t.path) : id \in {"VER001", "CONSIST002"}}

\* what may follow the first violation of a list written by hand
LaterViolations(api, v) ==
    {HandViolation(id, v["path"], FirstTarget(api).method) : id \in {"RESP001", "DOC001"}}

\* the lists a caller of fix_spec writes by hand
HandLists(api) ==
    {<<>>} \cup
    UNION {{<<v>> \o tail : tail \in SeqsUpTo(LaterViolations(api, v), MaxViolations - 1)} :
             v \in FirstViolations(api)}

\* what the generation call does
AdapterOutcomes ==
    {[raised |-> TRUE, content |-> <<>>],
     [raised |-> FALSE, content |-> <<"a", "i">>],
     [raised |-> FALSE, content |-> <<" ">>]}

\* the ids whose handlers call generate_ai_content
AdapterIds == {"DOC001", "OP_ID001", "PARAM_DESC001", "OP_SUM001", "SCHEMA_DESC001"}

\* one outcome per generation call of an iteration
AdapterRuns(v) ==
    IF v["id"] \in AdapterIds THEN [1..MaxParams -> AdapterOutcomes]
    ELSE {[k \in 1..MaxParams |-> [raised |-> TRUE, content |-> <<>>]]}

----------------------------------------------------------------------------
(* The program *)

InitWith(api, rls, at) ==
    /\ api_spec = api
    /\ rules = rls
    /\ violations = <<>>
    /\ pc = at
    /\ idx = 0
    /\ ret = None
    /\ err = "none"
    /\ fixed_file = None
    /\ first = None
    /\ second = None
    /\ after = None
    /\ spec0 = api
    /\ violations0 = <<>>
    /\ consumed = {}
    /\ generation = None
    /\ arg = None
    /\ out = None

\* "main": cartlis_governance.main is about to validate the document;
\* "caller": some caller of fix_spec is about to pass it a list written by hand
Init ==
    \/ \E api \in OneOperationDocuments, rls \in SingleRuleCatalogs :
          InitWith(api, rls, "main")
    \/ \E api \in UniformDocuments \cup OtherDocuments, rls \in Catalogs :
          InitWith(api, rls, "main")
    \/ \E api \in OneOperationDocuments \cup OtherDocuments :
          InitWith(api, Catalog(<<>>), "caller")
    \/ \E api \in ScenarioDocuments, rls \in ScenarioCatalogs :
          InitWith(api, rls, "main")
    \/ \E api \in ScenarioDocuments : InitWith(api, Catalog(<<>>), "caller")

\* main, lines 236: violations = validate_spec(api_spec, rules)
ValidateCall ==
    /\ pc = "main"
    /\ \E r \in {validate_spec(api_spec, rules)} :
           /\ first' = [violations |-> r.violations, err |-> r.err]
           /\ api_spec' = r.api_spec
           /\ rules' = r.rules
           /\ violations' = r.violations
           /\ err' = r.err
           /\ pc' = IF r.err = "none" THEN "validated" ELSE "raised"
    /\ UNCHANGED <<idx, ret, fixed_file, second, after, spec0, violations0, consumed,
                   generation, arg, out>>

\* a second validate_spec call on the same arguments
ValidateRepeat ==
    /\ pc = "validated"
    /\ second = None
    /\ \E r \in {validate_spec(api_spec, rules)} :
           /\ second' = [violations |-> r.violations, err |-> r.err]
           /\ api_spec' = r.api_spec
           /\ rules' = r.rules
    /\ UNCHANGED <<violations, pc, idx, ret, err, fixed_file, first, after, spec0,
                   violations0, consumed, generation, arg, out>>

\* main, lines 237-248: fix_spec is called when violations were found
FixCall ==
    /\ pc = "validated"
    /\ violations # <<>>
    /\ pc' = "fix_loop"
    /\ idx' = 1
    /\ violations0' = violations
    /\ UNCHANGED <<api_spec, rules, violations, ret, err, fixed_file, first, second,
                   after, spec0, consumed, generation, arg, out>>

\* fix_spec called on a list written by hand
FixDirect ==
    /\ pc = "caller"
    /\ \E vs \in HandLists(api_spec) :
          /\ violations' = vs
          /\ violations0' = vs
    /\ pc' = "fix_loop"
    /\ idx' = 1
    /\ UNCHANGED <<api_spec, rules, ret, err, fixed_file, first, second, after,
                   spec0, consumed, generation, arg, out>>

\* lines 56-62: a violation without method or path is passed over
Skipped(v) == Missing(v, "method") \/ Missing(v, "path")

FixSkip ==
    /\ pc = "fix_loop"
    /\ idx <= Len(violations)
    /\ Skipped(violations[idx])
    /\ idx' = idx + 1
    /\ UNCHANGED <<api_spec, rules, violations, pc, ret, err, fixed_file, first,
                   second, after, spec0, violations0, consumed, generation, arg, out>>

\* lines 64-346: the loop body for one violation; it ends in `return api_spec`
\* (line 346 is indented into the loop) or in an exception
FixIteration ==
    /\ pc = "fix_loop"
    /\ idx <= Len(violations)
    /\ ~Skipped(violations[idx])
    /\ \E ai \in AdapterRuns(violations[idx]) :
          \E f \in {LoopBody(api_spec, violations, idx, ai)} :
              /\ generation' = (IF violations[idx]["id"] \in AdapterIds THEN ai ELSE None)
              /\ api_spec' = f.api
              /\ violations' = f.violations
              /\ err' = f.err
              /\ IF f.err = "none"
                 THEN /\ fixed_file' = f.api
                      /\ ret' = f.api
                      /\ pc' = "returned"
                 ELSE /\ UNCHANGED <<fixed_file, ret>>
                      /\ pc' = "raised"
    /\ consumed' = consumed \cup {idx}
    /\ UNCHANGED <<rules, idx, first, second, after, spec0, violations0, arg, out>>

\* the loop runs out of violations: the function falls off its end
FixExhausted ==
    /\ pc = "fix_loop"
    /\ idx > Len(violations)
    /\ ret' = None
    /\ pc' = "returned"
    /\ UNCHANGED <<api_spec, rules, violations, idx, err, fixed_file, first, second,
                   after, spec0, violations0, consumed, generation, arg, out>>

\* main, lines 248-253: api_spec = fix_spec(...), then the dump
MainSave ==
    /\ pc = "returned"
    /\ first # None
    /\ api_spec' = ret
    /\ fixed_file' = ret
    /\ pc' = "saved"
    /\ UNCHANGED <<rules, violations, idx, ret, err, first, second, after, spec0,
                   violations0, consumed, generation, arg, out>>

\* validate_spec applied to what fix_spec returned
Revalidate ==
    /\ pc = "saved"
    /\ \E r \in {validate_spec(ret, rules)} :
           after' = [violations |-> r.violations, err |-> r.err]
    /\ err' = after'.err
    /\ pc' = IF after'.err = "none" THEN "revalidated" ELSE "raised"
    /\ UNCHANGED <<api_spec, rules, violations, idx, ret, fixed_file, first, second,
                   spec0, violations0, consumed, generation, arg, out>>

Next ==
    \/ ValidateCall
    \/ ValidateRepeat
    \/ FixCall
    \/ FixDirect
    \/ FixSkip
    \/ FixIteration
    \/ FixExhausted
    \/ MainSave
    \/ Revalidate

Spec == Init /\ [][Next]_vars

----------------------------------------------------------------------------
(* The helpers of fixer.py called on their own *)

MaxNameLen == 3      \* characters of an identifier

NameChars == {"a", "b", "B", "I", "_", "1"}

\* parameter and property names
Identifiers == SeqsUpTo(NameChars, MaxNameLen)

\* documents whose paths map methods to operations
SanitationDocuments == OneOperationDocuments \cup UniformDocuments \cup OtherDocuments

HelperStart(x, at) ==
    /\ api_spec = EmptyDict
    /\ rules = Catalog(<<>>)
    /\ violations = <<>>
    /\ pc = at
    /\ idx = 0
    /\ ret = None
    /\ err = "none"
    /\ fixed_file = None
    /\ first = None
    /\ second = None
    /\ after = None
    /\ spec0 = EmptyDict
    /\ violations0 = <<>>
    /\ consumed = {}
    /\ generation = None
    /\ arg = x
    /\ out = None

HelperInit ==
    \/ \E name \in Identifiers : HelperStart(name, "snake")
    \/ \E api \in SanitationDocuments : HelperStart(api, "sanitize")

HelperUnchanged ==
    UNCHANGED <<api_spec, rules, violations, idx, ret, err, fixed_file, first,
                second, after, spec0, violations0, consumed, generation>>

\* to_snake_case(name), line 136 and line 144
SnakeCall ==
    /\ pc = "snake"
    /\ out' = to_snake_case(arg)
    /\ pc' = "snake_once"
    /\ UNCHANGED arg
    /\ HelperUnchanged

\* to_snake_case on what to_snake_case returned
SnakeAgain ==
    /\ pc = "snake_once"
    /\ arg' = out
    /\ out' = to_snake_case(out)
    /\ pc' = "snake_twice"
    /\ HelperUnchanged

\* the None-response pass, lines 282-292
SanitizeCall ==
    /\ pc = "sanitize"
    /\ out' = SanitizeDocument(arg)
    /\ pc' = "sanitize_once"
    /\ UNCHANGED arg
    /\ HelperUnchanged

\* the pass on a document it has been over
SanitizeAgain ==
    /\ pc = "sanitize_once"
    /\ arg' = out
    /\ out' = SanitizeDocument(out)
    /\ pc' = "sanitize_twice"
    /\ HelperUnchanged

HelperNext ==
    \/ SnakeCall
    \/ SnakeAgain
    \/ SanitizeCall
    \/ SanitizeAgain

HelperSpec == HelperInit /\ [][HelperNext]_vars

----------------------------------------------------------------------------
(* Properties *)

\* the rules that have both a check in validate_spec and a handler in fix_spec,
\* the naming rule excepted
FixableIds ==
    {"SEC002", "SEC004", "PERF001", "PERF002", "VER001", "DOC001", "PARAM001", "RESP001"}

\* C1: validating what fix_spec returned for validate_spec's own violations
\* succeeds and reports no violation of a rule that has a fix handler.
C1_RevalidateClean ==
    after # None =>
        /\ after.err = "none"
        /\ \A k \in 1..Len(after.violations) : after.violations[k]["id"] \notin FixableIds

\* path p was a key of the document handed in, and is now moved to "/v1" + p
Moved(p) ==
    /\ Has(spec0, "paths") /\ OHas(spec0["paths"], p)
    /\ api_spec # None /\ Has(api_spec, "paths")
    /\ ~OHas(api_spec["paths"], p)
    /\ OHas(api_spec["paths"], Versioned(p))

\* C2: once the handler of a VER001 violation has moved path p, every later
\* violation of the list that named p names "/v1" + p.
C2_LaterViolationsFollowMove ==
    \A k \in consumed :
        (violations0[k]["id"] = "VER001" /\ Moved(violations0[k]["path"])) =>
            \A j \in (k + 1)..Len(violations0) :
                (Has(violations0[j], "path") /\ violations0[j]["path"] = violations0[k]["path"])
                    => violations[j]["path"] = Versioned(violations0[k]["path"])

\* the list handed to fix_spec is one VER001 violation without "method" for a
\* path of the document
OnePathViolation ==
    /\ Len(violations0) = 1
    /\ violations0[1]["id"] = "VER001"
    /\ ~Has(violations0[1], "method")
    /\ Has(spec0, "paths") /\ OHas(spec0["paths"], violations0[1]["path"])

\* C3: after fix_spec on one VER001 violation in validate_spec's shape, the
\* old key is gone and "/v1" + p holds the operations p held.
C3_PathMovedWithOperations ==
    (pc = "returned" /\ OnePathViolation) =>
        /\ Moved(violations0[1]["path"])
        /\ OGet(api_spec["paths"], Versioned(violations0[1]["path"]))
              = OGet(spec0["paths"], violations0[1]["path"])

\* every violation of the list handed to fix_spec names an operation of the document
TargetsExist ==
    \A k \in 1..Len(violations0) :
        /\ ~Skipped(violations0[k])
        /\ Has(spec0, "paths")
        /\ HasOperation(spec0, violations0[k]["path"], violations0[k]["method"])

\* C4: when fix_spec returns, the handler of every violation of the list has run.
C4_EveryViolationHandled ==
    (pc = "returned" /\ TargetsExist) => consumed = 1..Len(violations0)

\* the violation the loop is at names a path or method the document lacks
TargetAbsent ==
    /\ pc = "fix_loop"
    /\ idx <= Len(violations)
    /\ ~Skipped(violations[idx])
    /\ IF Has(api_spec, "paths")
       THEN ~HasOperation(api_spec, violations[idx]["path"], violations[idx]["method"])
       ELSE TRUE

\* C5: a violation whose path or method is not in the document raises nothing,
\* changes nothing and the loop goes on to the next violation.
C5_AbsentTargetSkipped ==
    [][TargetAbsent => (err' = "none" /\ api_spec' = api_spec /\ pc' = "fix_loop"
                        /\ idx' = idx + 1)]_vars

\* operation (p, m) of the document handed in has a "200" response that is None
Null200(p, m) ==
    /\ Has(spec0, "paths") /\ HasOperation(spec0, p, m)
    /\ Has(Operation(spec0, p, m), "responses")
    /\ OHas(Operation(spec0, p, m)["responses"], "200")
    /\ OGet(Operation(spec0, p, m)["responses"], "200") = None

\* C6: the PERF001 and PERF002 handlers never meet a None response: a run that
\* handles such a violation for an operation whose "200" response was None
\* raises nothing.
C6_NoHandlerReadsNull ==
    \A k \in consumed :
        (violations0[k]["id"] \in {"PERF001", "PERF002"}
         /\ Null200(violations0[k]["path"], violations0[k]["method"]))
            => err = "none"

\* the response slots of a document: path, method, status code and value
ResponseSlots(api) ==
    LET ops == Operations(api)
    IN  UNION {{[path |-> ops[i].path, method |-> ops[i].method,
                 code |-> GetOr(ops[i].details, "responses", <<>>)[j].k,
                 value |-> GetOr(ops[i].details, "responses", <<>>)[j].v] :
                   j \in 1..Len(GetOr(ops[i].details, "responses", <<>>))} :
                 i \in 1..Len(ops)}

\* C7: after fix_spec, for any list, no response of the document is None and
\* every slot that was None holds an object with a non-empty description.
C7_NullResponsesRepaired ==
    pc = "returned" =>
        /\ \A s \in ResponseSlots(api_spec) : s.value # None
        /\ \A s0 \in ResponseSlots(spec0) :
              s0.value = None =>
                 \E s \in ResponseSlots(api_spec) :
                    /\ s.path = s0.path /\ s.method = s0.method /\ s.code = s0.code
                    /\ s.value # None
                    /\ ~Empty(GetOr(s.value, "description", <<>>))

\* a security list that is present and empty: neither an absent field nor a
\* None response
EmptySecurity(api) ==
    \E i \in 1..Len(Operations(api)) :
        GetOr(Operations(api)[i].details, "security", OAuthScopes) = <<>>

\* C8: validate_spec raises nothing on a document whose optional fields are
\* absent or whose responses are None.
C8_ValidateNeverRaises ==
    (first # None /\ ~EmptySecurity(spec0)) => first.err = "none"

RulePosition(v) ==
    CHOOSE i \in 1..Len(rules["rules"]) : rules["rules"][i].id = v["id"]

PathPosition(v) == OIndex(spec0["paths"], v["path"])

MethodPosition(v) ==
    IF Has(v, "method") THEN OIndex(OGet(spec0["paths"], v["path"]), v["method"]) ELSE 0

DetailPosition(v) ==
    IF v["id"] \in {"CONSIST001", "PARAM001"}
    THEN LET params == Operation(spec0, v["path"], v["method"])["parameters"]
         IN  CHOOSE i \in 1..Len(params) :
                /\ Has(params[i], "name") /\ params[i]["name"] = v["description"].detail
                /\ \A j \in 1..(i - 1) :
                      ~(Has(params[j], "name") /\ params[j]["name"] = v["description"].detail)
    ELSE IF v["id"] = "RESP001"
    THEN OIndex(Operation(spec0, v["path"], v["method"])["responses"],
                v["description"].detail[1])
    ELSE 0

Rank(v) == <<RulePosition(v), PathPosition(v), MethodPosition(v), DetailPosition(v)>>

\* lexicographic order on ranks
RankLeq(a, b) ==
    \/ a[1] < b[1]
    \/ a[1] = b[1] /\ a[2] < b[2]
    \/ a[1] = b[1] /\ a[2] = b[2] /\ a[3] < b[3]
    \/ a[1] = b[1] /\ a[2] = b[2] /\ a[3] = b[3] /\ a[4] <= b[4]

\* C10: the violations validate_spec returns are in catalog order and, within
\* a rule, in the document's order of paths, methods and parameters/responses.
C10_CatalogThenDocumentOrder ==
    (first # None /\ first.err = "none") =>
        \A i, j \in 1..Len(first.violations) :
            i < j => RankLeq(Rank(first.violations[i]), Rank(first.violations[j]))

\* a returned list with violations of two rules, of two paths under one rule,
\* of two methods under one path, and of two responses under one operation
C10_Witness ==
    /\ first # None
    /\ first.err = "none"
    /\ \E i, j \in 1..Len(first.violations) :
          i < j /\ Rank(first.violations[i])[1] < Rank(first.violations[j])[1]
    /\ \E i, j \in 1..Len(first.violations) :
          /\ i < j
          /\ Rank(first.violations[i])[1] = Rank(first.violations[j])[1]
          /\ Rank(first.violations[i])[2] < Rank(first.violations[j])[2]
    /\ \E i, j \in 1..Len(first.violations) :
          /\ i < j
          /\ SubSeq(Rank(first.violations[i]), 1, 2) = SubSeq(Rank(first.violations[j]), 1, 2)
          /\ Rank(first.violations[i])[3] < Rank(first.violations[j])[3]
    /\ \E i, j \in 1..Len(first.violations) :
          /\ i < j
          /\ SubSeq(Rank(first.violations[i]), 1, 3) = SubSeq(Rank(first.violations[j]), 1, 3)
          /\ Rank(first.violations[i])[4] < Rank(first.violations[j])[4]

\* the document handed in has one operation, and it has no "security"
OneOperationWithoutSecurity ==
    /\ Len(Operations(spec0)) = 1
    /\ ~Has(Operations(spec0)[1].details, "security")

\* the catalog holds a rule of this id
HasRule(id) == \E i \in 1..Len(rules["rules"]) : rules["rules"][i].id = id

\* the places of the violations of one rule in validate_spec's list
ViolationsOf(id) == {k \in 1..Len(first.violations) : first.violations[k]["id"] = id}

FirstIds == [k \in 1..Len(first.violations) |-> first.violations[k]["id"]]

PetsRemediated(api) ==
    /\ api # None
    /\ Has(api, "paths")
    /\ ~OHas(api["paths"], <<"/", "pets">>)
    /\ HasOperation(api, Versioned(<<"/", "pets">>), "get")
    /\ LET op == Operation(api, Versioned(<<"/", "pets">>), "get")
       IN  /\ Has(op, "responses") /\ OHas(op["responses"], "200")
           /\ OGet(op["responses"], "200") # None
           /\ Has(OGet(op["responses"], "200"), "content")
           /\ \A h \in RateLimitHeaders \cup {"Cache-Control"} :
                 Has(GetOr(OGet(op["responses"], "200"), "headers", EmptyDict), h)

\* C13: for GET /pets with a bare "200" response and the catalog VER001, PERF001,
\* PERF002, RESP001, validate_spec reports each of the four rules, and fix_spec
\* on that list yields /v1/pets (and no /pets) whose "200" response has the
\* rate-limit headers, Cache-Control and content.
C13_PetsScenario ==
    (first # None /\ spec0 \in PetsDocuments /\ rules = PetsCatalog)
        => /\ first.err = "none"
           /\ \A id \in {"VER001", "PERF001", "PERF002", "RESP001"} : ViolationsOf(id) # {}
           /\ pc \in {"raised", "returned", "saved", "revalidated"} => PetsRemediated(ret)

\* C14: whatever the list (empty, or all of it passed over), fix_spec returns
\* the document, never None.
C14_ReturnsTheDocument ==
    pc = "returned" => (ret # None /\ ret = api_spec)

\* the rules validate_spec checks per operation
OperationRuleIds ==
    {"SEC002", "SEC004", "PERF001", "PERF002", "CONSIST001", "DOC001", "PARAM001",
     "RESP001"}

\* C15: every violation of an operation-level rule carries a path and a method
\* naming an operation of the document; every VER001 violation carries a path
\* of the document and no method.
C15_ViolationShape ==
    (first # None /\ first.err = "none") =>
        \A k \in 1..Len(first.violations) :
            LET v == first.violations[k]
            IN  /\ v["id"] \in OperationRuleIds =>
                     /\ Has(v, "path") /\ Has(v, "method")
                     /\ Has(spec0, "paths")
                     /\ HasOperation(spec0, v["path"], v["method"])
                /\ v["id"] = "VER001" =>
                     /\ Has(v, "path") /\ ~Has(v, "method")
                     /\ Has(spec0, "paths")
                     /\ OHas(spec0["paths"], v["path"])
                /\ v["id"] \in OperationRuleIds \cup {"VER001"}

\* a returned list holding a VER001 violation and an operation-level one
C15_Witness ==
    /\ first # None
    /\ first.err = "none"
    /\ ViolationsOf("VER001") # {}
    /\ \E id \in OperationRuleIds : ViolationsOf(id) # {}

\* the violation whose iteration has run (fix_spec runs at most one)
Handled == violations0[CHOOSE k \in consumed : TRUE]

\* the iteration that ran was for a rule of this id, on an operation of the document
HandledOperation(id) ==
    /\ pc \in {"returned", "raised"}
    /\ consumed # {}
    /\ Handled["id"] = id
    /\ Has(spec0, "paths")
    /\ HasOperation(spec0, Handled["path"], Handled["method"])

\* every generation call of that iteration failed
GenerationFailed ==
    IF generation = None THEN FALSE
    ELSE \A k \in DOMAIN generation : generation[k].raised

\* the field a rule's handler fills with generated text
GeneratedField(id) ==
    CASE id = "DOC001" -> "description"
      [] id = "OP_ID001" -> "operationId"
      [] id = "OP_SUM001" -> "summary"

\* the operation the iteration was for, before and after
OperationBefore == Operation(spec0, Handled["path"], Handled["method"])
OperationAfter == Operation(api_spec, Handled["path"], Handled["method"])

\* C16: a failing generation call raises nothing to fix_spec: the run for a
\* description, operation id or summary backfill on an existing operation
\* returns the document, and the text it wrote is the fallback string.
C16_AdapterFailureContained ==
    \A id \in {"DOC001", "OP_ID001", "OP_SUM001"} :
        (HandledOperation(id) /\ GenerationFailed) =>
            /\ pc = "returned" /\ err = "none"
            /\ ret # None /\ ret = api_spec
            /\ HasOperation(api_spec, Handled["path"], Handled["method"])
            /\ IF Has(OperationAfter, GeneratedField(id))
               THEN \/ OperationAfter[GeneratedField(id)] = Fallback
                    \/ /\ Has(OperationBefore, GeneratedField(id))
                       /\ OperationAfter[GeneratedField(id)]
                             = OperationBefore[GeneratedField(id)]
               ELSE ~Has(OperationBefore, GeneratedField(id))

\* a description backfill whose generation call failed has written the fallback
C16_Witness ==
    /\ HandledOperation("DOC001")
    /\ GenerationFailed
    /\ ~Has(OperationBefore, "description")
    /\ pc = "returned"
    /\ OperationAfter["description"] = Fallback

\* C17: to_snake_case applied to its own result returns that result.
C17_SnakeCaseIdempotent == pc = "snake_twice" => out = arg

\* a name with an inner capital has been converted, and converted again
C17_Witness ==
    /\ pc = "snake_twice"
    /\ arg = <<"a", "_", "b">>
    /\ out = <<"a", "_", "b">>

\* some response of the document is None
HasNoneResponse(api) ==
    /\ Has(api, "paths")
    /\ \E i \in 1..Len(api["paths"]) : \E j \in 1..Len(api["paths"][i].v) :
          LET details == api["paths"][i].v[j].v
          IN  IF Has(details, "responses")
              THEN \E k \in 1..Len(details["responses"]) :
                      details["responses"][k].v = None
              ELSE FALSE

\* C18: the None-response pass changes nothing in a document it has been over.
C18_SanitationIdempotent == pc = "sanitize_twice" => out = arg

\* a document with a None response has been through the pass: the first pass
\* changed it
C18_Witness ==
    /\ pc = "sanitize_once"
    /\ HasNoneResponse(arg)
    /\ ~HasNoneResponse(out)
    /\ out # arg

\* C19: when the generation call of an operation-id backfill on an existing
\* operation fails, the operation's operationId is the placeholder made from
\* the method, not the fallback string of generate_ai_content.
C19_PlaceholderOnFailure ==
    (HandledOperation("OP_ID001") /\ GenerationFailed) =>
        /\ HasOperation(api_spec, Handled["path"], Handled["method"])
        /\ Has(OperationAfter, "operationId")
        /\ OperationAfter["operationId"] = OperationIdPlaceholder(Handled["method"])
        /\ OperationAfter["operationId"] # Fallback

\* the description the backfill was run for is absent or empty
DescriptionMissing ==
    IF Has(OperationBefore, "description")
    THEN OperationBefore["description"] = <<>>
    ELSE TRUE

\* C20: after a description backfill on an existing operation whose
\* description was absent or empty, the description is a non-empty string,
\* whatever the generation call did.
C20_DescriptionNeverEmpty ==
    (HandledOperation("DOC001") /\ DescriptionMissing) =>
        /\ HasOperation(api_spec, Handled["path"], Handled["method"])
        /\ Has(OperationAfter, "description")
        /\ OperationAfter["description"] # <<>>

\* the responses of the operation the iteration was for, before and after
ResponsesBefore == GetOr(OperationBefore, "responses", <<>>)
ResponsesAfter == GetOr(OperationAfter, "responses", <<>>)

\* the k-th response has a content entry and the four fixed headers, and the
\* content entry it had is the one it has
ResponseCompleted(k) ==
    /\ ResponsesAfter[k].k = ResponsesBefore[k].k
    /\ ResponsesAfter[k].v # None
    /\ Has(ResponsesAfter[k].v, "content")
    /\ Has(ResponsesAfter[k].v, "headers")
    /\ \A h \in DOMAIN AllHeaders :
          /\ Has(ResponsesAfter[k].v["headers"], h)
          /\ ResponsesAfter[k].v["headers"][h] = AllHeaders[h]
    /\ IF ResponsesBefore[k].v = None THEN TRUE
       ELSE IF Has(ResponsesBefore[k].v, "content")
       THEN ResponsesAfter[k].v["content"] = ResponsesBefore[k].v["content"]
       ELSE TRUE

\* the header entries the k-th response had
HeadersBefore(k) ==
    IF ResponsesBefore[k].v = None THEN EmptyDict
    ELSE GetOr(ResponsesBefore[k].v, "headers", EmptyDict)

\* C21 as stated: after RESP001 on an existing operation every response has a
\* content entry and the four headers, and the content entry and every header
\* entry a response already had are as they were.
C21_ResponsesMerged ==
    HandledOperation("RESP001") =>
        /\ pc = "returned"
        /\ Len(ResponsesAfter) = Len(ResponsesBefore)
        /\ \A k \in 1..Len(ResponsesBefore) :
              /\ ResponseCompleted(k)
              /\ \A h \in DOMAIN HeadersBefore(k) :
                    ResponsesAfter[k].v["headers"][h] = HeadersBefore(k)[h]

\* C21 amended: the header entries left as they were are those under other
\* names and those that already held the fixed value; an entry under one of
\* the four fixed names is set to the fixed value.
C21_ResponsesMergedByName ==
    HandledOperation("RESP001") =>
        /\ pc = "returned"
        /\ Len(ResponsesAfter) = Len(ResponsesBefore)
        /\ \A k \in 1..Len(ResponsesBefore) :
              /\ ResponseCompleted(k)
              /\ \A h \in DOMAIN HeadersBefore(k) :
                    /\ Has(ResponsesAfter[k].v["headers"], h)
                    /\ (h \notin DOMAIN AllHeaders \/ HeadersBefore(k)[h] = AllHeaders[h])
                          => ResponsesAfter[k].v["headers"][h] = HeadersBefore(k)[h]

\* RESP001 has run on a response that had a header of its own and the fixed
\* headers of the earlier fixes
C21_Witness ==
    /\ HandledOperation("RESP001")
    /\ pc = "returned"
    /\ \E k \in 1..Len(ResponsesBefore) : "X-Trace" \in DOMAIN HeadersBefore(k)
    /\ \E k \in 1..Len(ResponsesBefore) : HeadersBefore(k) = AllHeaders

\* the list fix_spec was given has a SEC002 violation it handled and, later,
\* a SEC004 violation for the same operation
ScopesThenScheme(i, j) ==
    /\ i < j
    /\ i \in consumed
    /\ violations0[i]["id"] = "SEC002"
    /\ violations0[j]["id"] = "SEC004"
    /\ Has(violations0[i], "method") /\ Has(violations0[j], "method")
    /\ violations0[i]["path"] = violations0[j]["path"]
    /\ violations0[i]["method"] = violations0[j]["method"]

ParametersBefore == GetOr(OperationBefore, "parameters", <<>>)
ParametersAfter == GetOr(OperationAfter, "parameters", <<>>)

\* a definition of the form the claim gives the appended ones
RequiredStringParameter(param) ==
    /\ Has(param, "name") /\ Has(param, "in") /\ Has(param, "required")
    /\ Has(param, "schema") /\ Has(param, "description")
    /\ param["in"] = "path"
    /\ param["required"] = TRUE
    /\ param["schema"] = [type |-> "string"]
    /\ param["description"] # <<>>

\* the name is declared by a path-location parameter
DeclaredInPath(params, name) ==
    \E k \in 1..Len(params) :
        IF Has(params[k], "in") /\ Has(params[k], "name")
        THEN params[k]["in"] = "path" /\ params[k]["name"] = name
        ELSE FALSE

\* C23: after PARAM001 on an existing operation at path p every {name}
\* segment of p is declared by a path-location parameter, the definitions
\* appended are required, string-typed and described, and the parameters the
\* operation had are unchanged.
C23_PathParametersDeclared ==
    HandledOperation("PARAM001") =>
        /\ pc = "returned"
        /\ Len(ParametersAfter) >= Len(ParametersBefore)
        /\ SubSeq(ParametersAfter, 1, Len(ParametersBefore)) = ParametersBefore
        /\ \A k \in (Len(ParametersBefore) + 1)..Len(ParametersAfter) :
              RequiredStringParameter(ParametersAfter[k])
        /\ \A n \in 1..Len(FindBraced(Handled["path"])) :
              DeclaredInPath(ParametersAfter, FindBraced(Handled["path"])[n])

\* the operation the backfill was run for has no summary
SummaryMissing ==
    IF Has(OperationBefore, "summary")
    THEN OperationBefore["summary"] = <<>>
    ELSE TRUE

\* C24: OP_SUM001 on an existing operation without a summary gives it a
\* non-empty summary, the text generate_ai_content returned, with or without
\* a requestBody on the operation.
C24_SummaryBackfilled ==
    (HandledOperation("OP_SUM001") /\ SummaryMissing) =>
        /\ pc = "returned"
        /\ Has(OperationAfter, "summary")
        /\ OperationAfter["summary"] # <<>>
        /\ OperationAfter["summary"] = generate_ai_content(generation[1])

\* C24 on the answers of the adapter that are not blank: the summary is
\* missing only because the operation has a requestBody
C24_SummaryBackfilledWhenAnswered ==
    (HandledOperation("OP_SUM001") /\ SummaryMissing
        /\ generate_ai_content(generation[1]) # <<>>) =>
        /\ Has(OperationAfter, "summary")
        /\ OperationAfter["summary"] # <<>>

\* the rules whose handler works on one field of the operation it is given
FieldRuleIds ==
    {"SEC002", "SEC004", "PERF001", "PERF002", "CONSIST001", "DOC001",
     "OP_ID001", "PARAM001", "PARAM_DESC001", "RESP001", "OP_SUM001"}

\* the field of the operation a rule's handler names
TargetField(id) ==
    CASE id \in {"SEC002", "SEC004"} -> "security"
      [] id \in {"PERF001", "PERF002", "RESP001"} -> "responses"
      [] id \in {"CONSIST001", "PARAM001", "PARAM_DESC001"} -> "parameters"
      [] id = "DOC001" -> "description"
      [] id = "OP_ID001" -> "operationId"
      [] id = "OP_SUM001" -> "summary"

\* the operation without one of its fields
WithoutField(op, g) == [x \in (DOMAIN op) \ {g} |-> op[x]]

\* the document with that field taken out of the operation at (path, method)
OutsideTarget(api, path, method, g) ==
    SetOperation(api, path, method, WithoutField(Operation(api, path, method), g))

\* C25: a pass for one violation of rule X at operation (p, m) leaves every
\* other path entry, every other operation and every field of (p, m) other
\* than the one X's handler names as they were, null responses replaced by
\* the default response apart.
C25_OnlyTheTargetChanges ==
    \A id \in FieldRuleIds :
        (HandledOperation(id) /\ pc = "returned" /\ Len(violations0) = 1) =>
            /\ HasOperation(api_spec, Handled["path"], Handled["method"])
            /\ OutsideTarget(api_spec, Handled["path"], Handled["method"], TargetField(id))
                 = OutsideTarget(SanitizeDocument(spec0), Handled["path"],
                                 Handled["method"], TargetField(id))

\* the iteration that ran was for VER001 on a path of the document
HandledPath ==
    /\ pc \in {"returned", "raised"}
    /\ consumed # {}
    /\ Handled["id"] = "VER001"
    /\ Has(spec0, "paths")
    /\ OHas(spec0["paths"], Handled["path"])

\* C26: moving p to "/v1" + p loses no path entry: the document has as many
\* path entries after fix_spec as before, and an entry that was under
\* "/v1" + p already is still what that key holds.
C26_NoPathEntryLost ==
    HandledPath =>
        /\ Len(api_spec["paths"]) = Len(spec0["paths"])
        /\ OHas(spec0["paths"], Versioned(Handled["path"])) =>
              /\ OHas(api_spec["paths"], Versioned(Handled["path"]))
              /\ OGet(api_spec["paths"], Versioned(Handled["path"]))
                    \in {OGet(spec0["paths"], Versioned(Handled["path"])),
                         OGet(SanitizeDocument(spec0)["paths"], Versioned(Handled["path"]))}

\* validate_spec with the one rule still reports it for the operation the
\* iteration was for
StillReported(id) ==
    \E r \in {validate_spec(api_spec, Catalog(<<id>>))} :
        \/ r.err # "none"
        \/ \E k \in 1..Len(r.violations) :
              /\ r.violations[k]["id"] = id
              /\ r.violations[k]["path"] = Handled["path"]
              /\ r.violations[k]["method"] = Handled["method"]

\* the description of the operation is present and whitespace-only
DescriptionBlank ==
    /\ Has(OperationBefore, "description")
    /\ OperationBefore["description"] # <<>>
    /\ Strip(OperationBefore["description"]) = <<>>

\* C27: after fix_spec with the DOC001 violation of an operation whose
\* description is whitespace-only, validate_spec reports no DOC001 for it.
C27_BlankDescriptionReplaced ==
    (HandledOperation("DOC001") /\ DescriptionBlank) =>
        /\ pc = "returned"
        /\ ~StillReported("DOC001")

\* every parameter the operation had carries `in` and `name`
ParametersWellFormed ==
    \A k \in 1..Len(ParametersBefore) :
        Has(ParametersBefore[k], "in") /\ Has(ParametersBefore[k], "name")

\* some path-location parameter of the operation has no schema
PathParameterWithoutSchema(params) ==
    \E k \in 1..Len(params) :
        params[k]["in"] = "path" /\ ~Has(params[k], "schema")

\* C28: after fix_spec with the PARAM001 violation of an operation that has
\* a path-location parameter without a schema, that parameter has a schema
\* and validate_spec reports no PARAM001 for the operation.
C28_PathParameterGetsSchema ==
    (HandledOperation("PARAM001") /\ ParametersWellFormed
        /\ PathParameterWithoutSchema(ParametersBefore)) =>
        /\ pc = "returned"
        /\ ~PathParameterWithoutSchema(ParametersAfter)
        /\ ~StillReported("PARAM001")

\* C29: after CONSIST001 on an existing operation every parameter name of
\* the operation matches ^([a-z]+_)*[a-z]+$, and validate_spec reports no
\* CONSIST001 for the operation.
C29_NamesMatchPattern ==
    (HandledOperation("CONSIST001") /\ ParametersWellFormed) =>
        /\ pc = "returned"
        /\ \A k \in 1..Len(ParametersAfter) :
              MatchesSnake(ParametersAfter[k]["name"])
        /\ ~StillReported("CONSIST001")

====
